---- MODULE Spec2Model ----
(***************************************************************************)
(* A model of archivex (src/archivex.go): the ZipFile and TarFile archive  *)
(* writers behind the Archivex interface, the destination naming policy,   *)
(* and the collaborators they drive (archive/zip, archive/tar,             *)
(* compress/gzip, os.File, io.ReadSeeker).                                 *)
(*                                                                         *)
(* Strings are sequences of one-character strings, so that HasSuffix and   *)
(* Replace are computed as Go computes them.                               *)
(***************************************************************************)
EXTENDS Integers, Sequences, FiniteSets, TLC

\* ------------------------------------------------------------------ bounds

\* Names handed to the naming policy are concatenations of at most this many tokens.
MaxTokens == 3

\* The caller makes at most this many calls on one handle.
MaxCalls == 3

\* A byte source holds at most this many bytes.
MaxSrcLen == 1

\* ----------------------------------------------------------------- strings

\* A nil error.
Nil == "nil"

\* A nil pointer or interface value.
NilPtr == [nil |-> TRUE]

\* No sink: the zero value of an io.Writer field.
NoSink == 0

dotZip == <<".", "z", "i", "p">>
dotTar == <<".", "t", "a", "r">>
dotGz == <<".", "g", "z">>
dotTarGz == dotTar \o dotGz
slash == <<"/">>

\* strings.HasSuffix(s, suffix)
HasSuffix(s, suffix) ==
    /\ Len(s) >= Len(suffix)
    /\ SubSeq(s, Len(s) - Len(suffix) + 1, Len(s)) = suffix

\* strings.HasPrefix(s, prefix)
HasPrefix(s, prefix) ==
    /\ Len(s) >= Len(prefix)
    /\ SubSeq(s, 1, Len(prefix)) = prefix

\* strings.Replace(s, old, new, -1): every non-overlapping occurrence of old,
\* scanning from the left, is replaced (old is never empty here).
RECURSIVE Replace(_, _, _)
Replace(s, old, new) ==
    IF Len(s) < Len(old) THEN s
    ELSE IF HasPrefix(s, old)
         THEN new \o Replace(SubSeq(s, Len(old) + 1, Len(s)), old, new)
         ELSE <<Head(s)>> \o Replace(Tail(s), old, new)

\* Only the final occurrence replaced: what a suffix rewrite would do.
TrimSuffix(s, suffix) == SubSeq(s, 1, Len(s) - Len(suffix))

\* ---------------------------------------------------------- naming policy

\* ZipFile.Create, lines 51-58: the name the ZIP file is created at.
ZipConfigureName(name) ==
    IF ~HasSuffix(name, dotZip)
    THEN IF HasSuffix(name, dotTarGz)
         THEN Replace(name, dotTarGz, dotZip)
         ELSE name \o dotZip
    ELSE name

\* configureName without line 124: the flag is taken from the given name alone.
configureNameFlagFromGivenName(name) ==
    [Name |-> IF ~HasSuffix(name, dotTarGz) /\ ~HasSuffix(name, dotTar)
              THEN IF HasSuffix(name, dotZip)
                   THEN Replace(name, dotZip, dotTarGz)
                   ELSE name \o dotTar
              ELSE name,
     Compressed |-> HasSuffix(name, dotTarGz)]

\* TarFile.configureName: the pair (t.Name, t.Compressed) it leaves behind.
configureName(name) ==
    IF ~HasSuffix(name, dotTarGz) /\ ~HasSuffix(name, dotTar)
    THEN IF HasSuffix(name, dotZip)
         THEN [Name |-> Replace(name, dotZip, dotTarGz), Compressed |-> TRUE]
         ELSE [Name |-> name \o dotTar, Compressed |-> FALSE]
    ELSE [Name |-> name, Compressed |-> HasSuffix(name, dotTarGz)]

\* ------------------------------------------------------------ input sets

Tokens == {<<"a">>, dotZip, dotTar, dotGz, dotTarGz}

RECURSIVE NamesOf(_)
NamesOf(k) ==
    IF k = 0 THEN {<<>>}
    ELSE LET shorter == NamesOf(k - 1)
         IN shorter \cup {n \o t : n \in shorter, t \in Tokens}

\* The names the naming policy is exercised on.
Names == NamesOf(MaxTokens) \ {<<>>}

\* The names a caller opens a handle with.
OpenNames == {<<"a">>, <<"a">> \o dotZip, <<"a">> \o dotTar, <<"a">> \o dotTarGz}

\* The entry paths a caller adds: directories with and without the trailing
\* slash, a file below the directory and a file named like a directory.
DirPaths == {<<"s">>, <<"s">> \o slash}
FilePaths == {<<"s">> \o slash \o <<"f">>, <<"s">> \o slash}

\* A byte source of length n holds the bytes 1..n: byte i sits at offset i-1,
\* so that a copy from a later offset differs from a copy from the start.
Bytes(n) == [i \in 1..n |-> i]

\* io.ReadSeeker values a caller may pass: every length and read position.
Sources == UNION {{[data |-> Bytes(n), pos |-> p] : p \in 0..n} : n \in 0..MaxSrcLen}

\* ------------------------------------------------------------------ state

VARIABLES
    impl,       \* the dynamic type behind the Archivex interface value
    Name,       \* ZipFile.Name / TarFile.Name
    Writer,     \* ZipFile.Writer / TarFile.Writer: NilPtr or the encoder's state
    GzWriter,   \* TarFile.GzWriter: NilPtr or the gzip encoder's state
    Compressed, \* TarFile.Compressed
    out,        \* ZipFile.out / TarFile.out: NoSink or the index of a sink
    sinks,      \* every output sink opened or supplied so far, in order
    released,   \* the indexes of the sinks whose Close has been called
    phase,      \* "unopened", "open" or "closed": what the caller has done to the handle
    last,       \* the last call: operation, argument, returned error, steps taken
    calls,      \* the add calls that returned nil since the handle was opened
    clean,      \* no add call has failed since the handle was opened
    panicked,   \* a nil dereference ended the program
    ncalls,     \* calls made so far
    stage,      \* naming policy exercise: "in", "out", "again"
    fmt,        \* naming policy exercise: "zip" or "tar"
    arg,        \* naming policy exercise: the name given
    res,        \* naming policy exercise: the name and flag produced
    res2        \* naming policy exercise: the result of normalizing res.Name again

handle == <<impl, Name, Writer, GzWriter, Compressed, out>>
world == <<sinks, released>>
ghost == <<phase, last, calls, clean, panicked, ncalls>>
naming == <<stage, fmt, arg, res, res2>>
vars == <<handle, world, ghost, naming>>

\* ------------------------------------------------------------ collaborators

ErrCreate == "os.Create failed"
ErrHeader == "header write failed"
ErrRead == "source read failed"
ErrSeek == "source seek failed"
ErrDirWrite == "zip: write to directory"
ErrZipClose == "zip finalize failed"
ErrZipClosedTwice == "zip: writer closed twice"
ErrTarClose == "tar finalize failed"
ErrMissed == "archive/tar: missed writing bytes"
ErrWriteAfterClose == "archive/tar: write after close"
ErrGzClose == "gzip finalize failed"
ErrSinkClose == "sink close failed"

\* A sink is an *os.File (kind "file", with the path it was created at) or a
\* writer supplied by the caller, which implements io.Closer ("closer") or
\* does not ("plain").
IsCloser(i) == sinks[i].kind \in {"file", "closer"}

\* The destination of a tar.Writer bound to the handle's gzip.Writer.
ViaGz == -1

\* zip.NewWriter(w) / tar.NewWriter(w) / gzip.NewWriter(w)
zipNewWriter(dst) == [dst |-> dst, entries |-> <<>>, closed |-> FALSE]
tarNewWriter(dst) == [dst |-> dst, entries |-> <<>>, err |-> Nil]
gzipNewWriter(dst) == [dst |-> dst, closed |-> FALSE]

\* An archive entry as the encoder holds it.
Entry(name, kind, size, data) == [name |-> name, kind |-> kind, size |-> size, data |-> data]

\* The last entry of an encoder with its data replaced.
WithData(w, data) ==
    [w EXCEPT !.entries[Len(w.entries)].data = data]

\* tar.Writer: bytes of the current entry still owed.
tarRemaining(w) ==
    IF w.entries = <<>> THEN 0
    ELSE LET e == w.entries[Len(w.entries)] IN e.size - Len(e.data)

\* What a call leaves in `last`.
Call(op, a, ret, steps, src) ==
    [op |-> op, arg |-> a, ret |-> ret, steps |-> steps, src |-> src]

NoCall == [op |-> "none", arg |-> <<>>, ret |-> Nil, steps |-> <<>>, src |-> NilPtr]

CanCall == ~panicked /\ ncalls < MaxCalls /\ stage = "off"

\* A nil pointer dereference: the program ends, nothing else changes.
Panic(op, a, steps, src) ==
    /\ panicked' = TRUE
    /\ last' = Call(op, a, "panic", steps, src)
    /\ ncalls' = ncalls + 1

Returned(op, a, ret, steps, src) ==
    /\ panicked' = FALSE
    /\ last' = Call(op, a, ret, steps, src)
    /\ ncalls' = ncalls + 1

\* zip.Writer.CreateHeader(fh): appends the entry and returns its writer. A name
\* ending in "/" makes a directory entry, whose writer refuses data. The encoder
\* does not look at its closed flag here.
zipCreateHeader(w, name, ok) ==
    IF ok
    THEN [w |-> [w EXCEPT !.entries = Append(@, Entry(name,
                     IF HasSuffix(name, slash) THEN "dir" ELSE "reg", 0, <<>>))],
          err |-> Nil]
    ELSE [w |-> w, err |-> ErrHeader]

\* io.Copy / io.CopyBuffer from a source at its current position: k bytes reach
\* the destination and the source has advanced by k; a read error ends the copy
\* when fail holds, end of data otherwise.
CopyFrom(src, k) == SubSeq(src.data, src.pos + 1, src.pos + k)
Advance(src, k) == [src EXCEPT !.pos = @ + k]
Rest(src) == Len(src.data) - src.pos

\* A copy that moves nothing and reports success.
CopyCountNone(src, outcome, k) == IF outcome = "read" THEN k ELSE 0

\* The bytes io.CopyBuffer (line 86) / io.Copy (line 193) move: all that is
\* left of the source, or k when the source fails.
CopyCount(src, outcome, k) == IF outcome = "read" THEN k ELSE Rest(src)

\* AddDirectory appending the slash without looking at the path.
DirNameAlwaysAppend(path) == path \o slash

\* AddDirectory without the trailing-slash rule: the path as given.
DirNameAsGiven(path) == path

\* The trailing-slash rule of AddDirectory (both writers).
DirName(path) == IF ~HasSuffix(path, slash) THEN path \o slash ELSE path

\* ---------------------------------------------------------------- ZipFile

\* ZipFile.Create(name)
ZipCreate(name, ok) ==
    /\ CanCall /\ impl = "ZipFile"
    /\ Name' = ZipConfigureName(name)
    /\ IF ok
       THEN /\ sinks' = Append(sinks, [kind |-> "file", path |-> Name'])
            /\ Writer' = zipNewWriter(Len(sinks'))
            /\ phase' = "open" /\ calls' = <<>> /\ clean' = TRUE
            /\ Returned("Create", name, Nil, <<>>, NilPtr)
       ELSE /\ UNCHANGED <<sinks, Writer, phase, calls, clean>>
            /\ Returned("Create", name, ErrCreate, <<>>, NilPtr)
    /\ UNCHANGED <<impl, GzWriter, Compressed, out, released, naming>>

\* ZipFile.CreateWriter(name, w)
ZipCreateWriter(name, kind) ==
    /\ CanCall /\ impl = "ZipFile"
    /\ sinks' = Append(sinks, [kind |-> kind, path |-> <<>>])
    /\ Writer' = zipNewWriter(Len(sinks'))
    /\ Name' = name
    /\ phase' = "open" /\ calls' = <<>> /\ clean' = TRUE
    /\ Returned("CreateWriter", name, Nil, <<>>, NilPtr)
    /\ UNCHANGED <<impl, GzWriter, Compressed, out, released, naming>>

\* ZipFile.AddFile(path, file): the header, then the copy of the source from
\* where it stands. outcome is "ok", "header" (CreateHeader fails) or "read"
\* (the source fails after k bytes).
ZipAddFile(path, src, outcome, k) ==
    /\ CanCall /\ impl = "ZipFile"
    /\ IF Writer = NilPtr
       THEN /\ Panic("AddFile", path, <<>>, src)
            /\ UNCHANGED <<Writer, calls, clean>>
       ELSE LET h == zipCreateHeader(Writer, path, outcome # "header")
                isDir == HasSuffix(path, slash)
                n == CopyCount(src, outcome, k)
            IN IF h.err # Nil
               THEN /\ Writer' = h.w
                    /\ calls' = calls /\ clean' = FALSE
                    /\ Returned("AddFile", path, h.err, <<>>, src)
               ELSE IF isDir /\ n > 0
               THEN /\ Writer' = h.w
                    /\ calls' = calls /\ clean' = FALSE
                    /\ Returned("AddFile", path, ErrDirWrite, <<>>, Advance(src, n))
               ELSE /\ Writer' = [WithData(h.w, CopyFrom(src, n)) EXCEPT
                                     !.entries[Len(h.w.entries)].size = n]
                    /\ IF outcome = "read"
                       THEN /\ calls' = calls /\ clean' = FALSE
                            /\ Returned("AddFile", path, ErrRead, <<>>, Advance(src, n))
                       ELSE /\ calls' = Append(calls, [op |-> "AddFile", path |-> path, src |-> src])
                            /\ clean' = clean
                            /\ Returned("AddFile", path, Nil, <<>>, Advance(src, n))
    /\ UNCHANGED <<impl, Name, GzWriter, Compressed, out, world, phase, naming>>

\* ZipFile.AddDirectory(path)
ZipAddDirectory(path, ok) ==
    /\ CanCall /\ impl = "ZipFile"
    /\ IF Writer = NilPtr
       THEN /\ Panic("AddDirectory", path, <<>>, NilPtr)
            /\ UNCHANGED <<Writer, calls, clean>>
       ELSE LET h == zipCreateHeader(Writer, DirName(path), ok)
            IN /\ Writer' = h.w
               /\ IF h.err = Nil
                  THEN /\ calls' = Append(calls, [op |-> "AddDirectory", path |-> path, src |-> NilPtr])
                       /\ clean' = clean
                  ELSE calls' = calls /\ clean' = FALSE
               /\ Returned("AddDirectory", path, h.err, <<>>, NilPtr)
    /\ UNCHANGED <<impl, Name, GzWriter, Compressed, out, world, phase, naming>>

\* zip.Writer.Close(): a second Close is refused; the first marks the encoder
\* closed and writes the central directory, which may fail.
zipClose(w, ok) ==
    IF w.closed THEN [w |-> w, err |-> ErrZipClosedTwice]
    ELSE [w |-> [w EXCEPT !.closed = TRUE], err |-> IF ok THEN Nil ELSE ErrZipClose]

\* One step of a Close and the error it produced.
Step(name, err) == [step |-> name, err |-> err]

\* io.Closer.Close() of a sink.
sinkClose(ok) == IF ok THEN Nil ELSE ErrSinkClose

\* ZipFile.Close returning nil whatever the encoder's finalize returned.
ZipFileCloseDropsFinalizeError(w, o, ok, sinkOk) ==
    LET c == zipClose(w, ok)
        rel == o # NoSink /\ IsCloser(o)
    IN [Writer |-> c.w,
        release |-> IF rel THEN {o} ELSE {},
        steps |-> <<Step("zip", c.err)>> \o
                  (IF rel THEN <<Step("sink", sinkClose(sinkOk))>> ELSE <<>>),
        ret |-> Nil]

\* ZipFile.Close(): what it does to the encoder, which sinks it releases, the
\* steps it takes and what it returns.
ZipFileClose(w, o, ok, sinkOk) ==
    LET c == zipClose(w, ok)
        rel == o # NoSink /\ IsCloser(o)
    IN [Writer |-> c.w,
        release |-> IF rel THEN {o} ELSE {},
        steps |-> <<Step("zip", c.err)>> \o
                  (IF rel THEN <<Step("sink", sinkClose(sinkOk))>> ELSE <<>>),
        ret |-> c.err]

ZipClose(ok, sinkOk) ==
    /\ CanCall /\ impl = "ZipFile"
    /\ IF Writer = NilPtr
       THEN /\ Panic("Close", <<>>, <<>>, NilPtr)
            /\ UNCHANGED <<Writer, released, phase>>
       ELSE LET r == ZipFileClose(Writer, out, ok, sinkOk)
            IN /\ Writer' = r.Writer
               /\ released' = released \cup r.release
               /\ phase' = "closed"
               /\ Returned("Close", <<>>, r.ret, r.steps, NilPtr)
    /\ UNCHANGED <<impl, Name, GzWriter, Compressed, out, sinks, calls, clean, naming>>

\* ---------------------------------------------------------------- TarFile

\* tar.Writer.WriteHeader(hdr): refused once the encoder holds an error (a
\* failed write, or a Close) or while the previous entry is short of its
\* declared size; a failed header write stays with the encoder.
tarWriteHeader(w, name, kind, size, ok) ==
    IF w.err # Nil THEN [w |-> w, err |-> w.err]
    ELSE IF tarRemaining(w) > 0 THEN [w |-> w, err |-> ErrMissed]
    ELSE IF ~ok THEN [w |-> [w EXCEPT !.err = ErrHeader], err |-> ErrHeader]
    ELSE [w |-> [w EXCEPT !.entries = Append(@, Entry(name, kind, size, <<>>))], err |-> Nil]

\* tar.Writer.Close(): nil on an encoder already closed, the held error if
\* there is one; otherwise the padding and the trailer are written, which
\* fails when the last entry is short or the write fails, and the encoder
\* refuses everything from then on.
tarClose(w, ok) ==
    IF w.err = ErrWriteAfterClose THEN [w |-> w, err |-> Nil]
    ELSE IF w.err # Nil THEN [w |-> w, err |-> w.err]
    ELSE [w |-> [w EXCEPT !.err = ErrWriteAfterClose],
          err |-> IF tarRemaining(w) > 0 THEN ErrMissed
                  ELSE IF ok THEN Nil ELSE ErrTarClose]

\* gzip.Writer.Close(): nil on an encoder already closed; otherwise the
\* trailer is written, which may fail.
gzipClose(g, ok) ==
    IF g.closed THEN [g |-> g, err |-> Nil]
    ELSE [g |-> [g EXCEPT !.closed = TRUE], err |-> IF ok THEN Nil ELSE ErrGzClose]

\* The encoder wiring shared by TarFile.Create and TarFile.CreateWriter (lines
\* 144-149, 158-163): the fields after binding to sink i. Without compression
\* the GzWriter field keeps what it held.
TarBind(compressed, gz, i) ==
    IF compressed
    THEN [GzWriter |-> gzipNewWriter(i), Writer |-> tarNewWriter(ViaGz)]
    ELSE [GzWriter |-> gz, Writer |-> tarNewWriter(i)]

\* The path TarFile.Create hands to os.Create.
TarCreatePath(name) == name

\* TarFile.Create(name)
TarCreate(name, ok) ==
    /\ CanCall /\ impl = "TarFile"
    /\ Name' = configureName(name).Name
    /\ Compressed' = configureName(name).Compressed
    /\ IF ok
       THEN /\ sinks' = Append(sinks, [kind |-> "file", path |-> TarCreatePath(name)])
            /\ GzWriter' = TarBind(Compressed', GzWriter, Len(sinks')).GzWriter
            /\ Writer' = TarBind(Compressed', GzWriter, Len(sinks')).Writer
            /\ out' = Len(sinks')
            /\ phase' = "open" /\ calls' = <<>> /\ clean' = TRUE
            /\ Returned("Create", name, Nil, <<>>, NilPtr)
       ELSE /\ UNCHANGED <<sinks, GzWriter, Writer, out, phase, calls, clean>>
            /\ Returned("Create", name, ErrCreate, <<>>, NilPtr)
    /\ UNCHANGED <<impl, released, naming>>

\* TarFile.CreateWriter(name, w)
TarCreateWriter(name, kind) ==
    /\ CanCall /\ impl = "TarFile"
    /\ Name' = configureName(name).Name
    /\ Compressed' = configureName(name).Compressed
    /\ sinks' = Append(sinks, [kind |-> kind, path |-> <<>>])
    /\ GzWriter' = TarBind(Compressed', GzWriter, Len(sinks')).GzWriter
    /\ Writer' = TarBind(Compressed', GzWriter, Len(sinks')).Writer
    /\ out' = Len(sinks')
    /\ phase' = "open" /\ calls' = <<>> /\ clean' = TRUE
    /\ Returned("CreateWriter", name, Nil, <<>>, NilPtr)
    /\ UNCHANGED <<impl, released, naming>>

\* TarFile.AddFile without the seek back to the start: the source stays at
\* its end after being measured.
TarMeasureNoRewind(src, outcome) ==
    IF outcome = "seek1"
    THEN [err |-> ErrSeek, size |-> 0, src |-> src, steps |-> <<Step("seek", ErrSeek)>>]
    ELSE IF outcome = "seek2"
    THEN [err |-> ErrSeek, size |-> Len(src.data), src |-> [src EXCEPT !.pos = Len(src.data)],
          steps |-> <<Step("seek", Nil), Step("seek", ErrSeek)>>]
    ELSE [err |-> Nil, size |-> Len(src.data), src |-> [src EXCEPT !.pos = Len(src.data)],
          steps |-> <<Step("seek", Nil), Step("seek", Nil)>>]

\* TarFile.AddFile without the check of lines 178-180: a failed seek back to
\* the start goes unnoticed.
TarMeasureIgnoresSecondSeek(src, outcome) ==
    IF outcome = "seek1"
    THEN [err |-> ErrSeek, size |-> 0, src |-> src, steps |-> <<Step("seek", ErrSeek)>>]
    ELSE IF outcome = "seek2"
    THEN [err |-> Nil, size |-> Len(src.data), src |-> [src EXCEPT !.pos = Len(src.data)],
          steps |-> <<Step("seek", Nil), Step("seek", ErrSeek)>>]
    ELSE [err |-> Nil, size |-> Len(src.data), src |-> [src EXCEPT !.pos = 0],
          steps |-> <<Step("seek", Nil), Step("seek", Nil)>>]

\* The two seeks of TarFile.AddFile (lines 171-180): the measured size, the
\* source as the seeks leave it and the seeks made with their results.
\* outcome "seek1" / "seek2" fails that seek.
TarMeasure(src, outcome) ==
    IF outcome = "seek1"
    THEN [err |-> ErrSeek, size |-> 0, src |-> src, steps |-> <<Step("seek", ErrSeek)>>]
    ELSE IF outcome = "seek2"
    THEN [err |-> ErrSeek, size |-> Len(src.data), src |-> [src EXCEPT !.pos = Len(src.data)],
          steps |-> <<Step("seek", Nil), Step("seek", ErrSeek)>>]
    ELSE [err |-> Nil, size |-> Len(src.data), src |-> [src EXCEPT !.pos = 0],
          steps |-> <<Step("seek", Nil), Step("seek", Nil)>>]

\* TarFile.AddFile(path, file). outcome is "ok", "seek1", "seek2", "header" or
\* "read" (the source fails after k bytes of the copy).
TarAddFile(path, src, outcome, k) ==
    /\ CanCall /\ impl = "TarFile"
    /\ LET m == TarMeasure(src, outcome)
       IN IF m.err # Nil
          THEN /\ Returned("AddFile", path, m.err, m.steps, m.src)
               /\ Writer' = Writer /\ calls' = calls /\ clean' = FALSE
          ELSE IF Writer = NilPtr
          THEN /\ Panic("AddFile", path, m.steps, m.src)
               /\ UNCHANGED <<Writer, calls, clean>>
          ELSE LET h == tarWriteHeader(Writer, path, "reg", m.size, outcome # "header")
                   n == CopyCount(m.src, outcome, k)
               IN IF h.err # Nil
                  THEN /\ Writer' = h.w
                       /\ calls' = calls /\ clean' = FALSE
                       /\ Returned("AddFile", path, h.err, m.steps, m.src)
                  ELSE /\ Writer' = WithData(h.w, CopyFrom(m.src, n))
                       /\ IF outcome = "read"
                          THEN /\ calls' = calls /\ clean' = FALSE
                               /\ Returned("AddFile", path, ErrRead, m.steps, Advance(m.src, n))
                          ELSE /\ calls' = Append(calls, [op |-> "AddFile", path |-> path, src |-> src])
                               /\ clean' = clean
                               /\ Returned("AddFile", path, Nil, m.steps, Advance(m.src, n))
    /\ UNCHANGED <<impl, Name, GzWriter, Compressed, out, world, phase, naming>>

\* TarFile.AddDirectory(path)
TarAddDirectory(path, ok) ==
    /\ CanCall /\ impl = "TarFile"
    /\ IF Writer = NilPtr
       THEN /\ Panic("AddDirectory", path, <<>>, NilPtr)
            /\ UNCHANGED <<Writer, calls, clean>>
       ELSE LET h == tarWriteHeader(Writer, DirName(path), "dir", 0, ok)
            IN /\ Writer' = h.w
               /\ IF h.err = Nil
                  THEN /\ calls' = Append(calls, [op |-> "AddDirectory", path |-> path, src |-> NilPtr])
                       /\ clean' = clean
                  ELSE calls' = calls /\ clean' = FALSE
               /\ Returned("AddDirectory", path, h.err, <<>>, NilPtr)
    /\ UNCHANGED <<impl, Name, GzWriter, Compressed, out, world, phase, naming>>

\* TarFile.Close with the sink released before the gzip encoder is finalized.
TarFileCloseSinkBeforeGzip(w, gz, compressed, o, tarOk, gzOk, sinkOk) ==
    LET c == tarClose(w, tarOk)
        g == IF compressed /\ gz # NilPtr THEN gzipClose(gz, gzOk) ELSE [g |-> gz, err |-> Nil]
        rel == o # NoSink /\ IsCloser(o)
        s1 == <<Step("tar", c.err)>>
        s2 == IF rel THEN s1 \o <<Step("sink", sinkClose(sinkOk))>> ELSE s1
        s3 == IF compressed THEN s2 \o <<Step("gz", g.err)>> ELSE s2
    IN IF c.err # Nil
       THEN [Writer |-> c.w, GzWriter |-> gz, release |-> {}, steps |-> s1,
             ret |-> c.err, panic |-> FALSE]
       ELSE IF compressed /\ gz = NilPtr
       THEN [Writer |-> c.w, GzWriter |-> gz, release |-> IF rel THEN {o} ELSE {},
             steps |-> s2, ret |-> Nil, panic |-> TRUE]
       ELSE [Writer |-> c.w, GzWriter |-> g.g, release |-> IF rel THEN {o} ELSE {},
             steps |-> s3, ret |-> IF compressed THEN g.err ELSE Nil, panic |-> FALSE]

\* TarFile.Close without the early return of lines 221-223: a failed gzip
\* finalize is remembered, the sink is released all the same.
TarFileCloseNoEarlyReturn(w, gz, compressed, o, tarOk, gzOk, sinkOk) ==
    LET c == tarClose(w, tarOk)
        g == IF compressed /\ gz # NilPtr THEN gzipClose(gz, gzOk) ELSE [g |-> gz, err |-> Nil]
        rel == o # NoSink /\ IsCloser(o)
        s1 == <<Step("tar", c.err)>>
        s2 == IF compressed THEN s1 \o <<Step("gz", g.err)>> ELSE s1
        s3 == IF rel THEN s2 \o <<Step("sink", sinkClose(sinkOk))>> ELSE s2
    IN IF c.err # Nil
       THEN [Writer |-> c.w, GzWriter |-> gz, release |-> {}, steps |-> s1,
             ret |-> c.err, panic |-> FALSE]
       ELSE IF compressed /\ gz = NilPtr
       THEN [Writer |-> c.w, GzWriter |-> gz, release |-> {}, steps |-> s1,
             ret |-> Nil, panic |-> TRUE]
       ELSE [Writer |-> c.w, GzWriter |-> g.g, release |-> IF rel THEN {o} ELSE {},
             steps |-> s3, ret |-> g.err, panic |-> FALSE]

\* TarFile.Close(): the encoders and sinks after it, the steps it takes in
\* order, what it returns, and whether it dies on a nil GzWriter.
TarFileClose(w, gz, compressed, o, tarOk, gzOk, sinkOk) ==
    LET c == tarClose(w, tarOk)
        g == IF compressed /\ gz # NilPtr THEN gzipClose(gz, gzOk) ELSE [g |-> gz, err |-> Nil]
        rel == o # NoSink /\ IsCloser(o)
        s1 == <<Step("tar", c.err)>>
        s2 == IF compressed THEN s1 \o <<Step("gz", g.err)>> ELSE s1
        s3 == IF rel THEN s2 \o <<Step("sink", sinkClose(sinkOk))>> ELSE s2
    IN IF c.err # Nil
       THEN [Writer |-> c.w, GzWriter |-> gz, release |-> {}, steps |-> s1,
             ret |-> c.err, panic |-> FALSE]
       ELSE IF compressed /\ gz = NilPtr
       THEN [Writer |-> c.w, GzWriter |-> gz, release |-> {}, steps |-> s1,
             ret |-> Nil, panic |-> TRUE]
       ELSE IF compressed /\ g.err # Nil
       THEN [Writer |-> c.w, GzWriter |-> g.g, release |-> {}, steps |-> s2,
             ret |-> g.err, panic |-> FALSE]
       ELSE [Writer |-> c.w, GzWriter |-> g.g, release |-> IF rel THEN {o} ELSE {},
             steps |-> s3, ret |-> Nil, panic |-> FALSE]

TarClose(tarOk, gzOk, sinkOk) ==
    /\ CanCall /\ impl = "TarFile"
    /\ IF Writer = NilPtr
       THEN /\ Panic("Close", <<>>, <<>>, NilPtr)
            /\ UNCHANGED <<Writer, GzWriter, released, phase>>
       ELSE LET r == TarFileClose(Writer, GzWriter, Compressed, out, tarOk, gzOk, sinkOk)
            IN /\ Writer' = r.Writer
               /\ GzWriter' = r.GzWriter
               /\ released' = released \cup r.release
               /\ phase' = "closed"
               /\ IF r.panic
                  THEN Panic("Close", <<>>, r.steps, NilPtr)
                  ELSE Returned("Close", <<>>, r.ret, r.steps, NilPtr)
    /\ UNCHANGED <<impl, Name, Compressed, out, sinks, calls, clean, naming>>

\* ----------------------------------------------- naming policy, exercised

\* The policy of one format applied to a name: the name and the flag it yields.
Normalize(f, name) ==
    IF f = "zip"
    THEN [Name |-> ZipConfigureName(name), Compressed |-> FALSE]
    ELSE configureName(name)

\* Normalize a given name.
NormalizeName(f) ==
    /\ stage = "in"
    /\ fmt' = f
    /\ res' = Normalize(f, arg)
    /\ stage' = "out"
    /\ UNCHANGED <<arg, res2, handle, world, ghost>>

\* Normalize the produced name again, as a second Create with it would.
NormalizeAgain ==
    /\ stage = "out"
    /\ res2' = Normalize(fmt, res.Name)
    /\ stage' = "again"
    /\ UNCHANGED <<fmt, arg, res, handle, world, ghost>>

\* ---------------------------------------------------------- specifications

NoResult == [Name |-> <<>>, Compressed |-> FALSE]

InitHandle ==
    /\ Name = <<>> /\ Writer = NilPtr /\ GzWriter = NilPtr /\ Compressed = FALSE /\ out = NoSink
    /\ sinks = <<>> /\ released = {}
    /\ phase = "unopened" /\ last = NoCall /\ calls = <<>> /\ clean = TRUE
    /\ panicked = FALSE /\ ncalls = 0

\* A caller holding a fresh handle of either writer.
Init ==
    /\ impl \in {"ZipFile", "TarFile"}
    /\ InitHandle
    /\ stage = "off" /\ fmt = "zip" /\ arg = <<>> /\ res = NoResult /\ res2 = NoResult

Next ==
    \/ \E name \in OpenNames, ok \in BOOLEAN : ZipCreate(name, ok)
    \/ \E name \in OpenNames, kind \in {"closer", "plain"} : ZipCreateWriter(name, kind)
    \/ \E path \in FilePaths, src \in Sources, outcome \in {"ok", "header", "read"} :
          \E k \in (IF outcome = "read" THEN 0..Rest(src) ELSE {0}) : ZipAddFile(path, src, outcome, k)
    \/ \E path \in DirPaths, ok \in BOOLEAN : ZipAddDirectory(path, ok)
    \/ \E ok \in BOOLEAN, sinkOk \in BOOLEAN : ZipClose(ok, sinkOk)
    \/ \E name \in OpenNames, ok \in BOOLEAN : TarCreate(name, ok)
    \/ \E name \in OpenNames, kind \in {"closer", "plain"} : TarCreateWriter(name, kind)
    \/ \E path \in FilePaths, src \in Sources, outcome \in {"ok", "seek1", "seek2", "header", "read"} :
          \E k \in (IF outcome = "read" THEN 0..Len(src.data) ELSE {0}) : TarAddFile(path, src, outcome, k)
    \/ \E path \in DirPaths, ok \in BOOLEAN : TarAddDirectory(path, ok)
    \/ \E tarOk \in BOOLEAN, gzOk \in BOOLEAN, sinkOk \in BOOLEAN : TarClose(tarOk, gzOk, sinkOk)

Spec == Init /\ [][Next]_vars

\* The naming policy on its own: a name drawn from Names, normalized for one
\* format, then normalized again.
InitName ==
    /\ impl = "ZipFile"
    /\ InitHandle
    /\ stage = "in" /\ fmt = "zip" /\ arg \in Names /\ res = NoResult /\ res2 = NoResult

NextName ==
    \/ \E f \in {"zip", "tar"} : NormalizeName(f)
    \/ NormalizeAgain

SpecName == InitName /\ [][NextName]_vars

\* ------------------------------------------------------------------ claims

\* The entries of the archive the handle's encoder has written.
Entries == IF Writer = NilPtr THEN <<>> ELSE Writer.entries

\* The sink the handle's encoder writes to, directly or through gzip.
Destination ==
    IF Writer = NilPtr THEN NoSink
    ELSE IF Writer.dst = ViaGz THEN GzWriter.dst
    ELSE Writer.dst

StepNames(steps) == [i \in 1..Len(steps) |-> steps[i].step]

TarClosed == impl = "TarFile" /\ last.op = "Close" /\ last.steps # <<>>

\* C1: TarFile.Create(name) creates the destination file at the name the TAR
\* naming policy produces, the value it stores as Name, not at the raw
\* argument.
C1_TarCreateOpensPolicyName ==
    (impl = "TarFile" /\ last.op = "Create" /\ last.ret = Nil)
        => sinks[out].path = Name

\* C2: a ZipFile opened by Create, or by CreateWriter with a sink that can be
\* released, has released that sink once Close has returned.
C2_ZipCloseReleasesSink ==
    (impl = "ZipFile" /\ last.op = "Close" /\ last.ret # "panic" /\ IsCloser(Destination))
        => Destination \in released

\* C3: TarFile.Close takes its steps in the order TAR finalize, gzip finalize
\* (only when Compressed), sink release (only when the sink can be released):
\* gzip is never finalized before TAR, and the sink is never released before
\* gzip (or, uncompressed, before TAR) has been finalized.
C3_TarCloseOrder ==
    TarClosed =>
        LET names == StepNames(last.steps)
            n == Len(names)
        IN /\ names[1] = "tar"
           /\ \A i \in 1..n :
                /\ names[i] = "tar" => i = 1
                /\ names[i] = "gz" => Compressed /\ i = 2 /\ last.steps[1].err = Nil
                /\ names[i] = "sink" =>
                     /\ IsCloser(out)
                     /\ i = n
                     /\ i = IF Compressed THEN 3 ELSE 2
                     /\ \A j \in 1..(i - 1) : last.steps[j].err = Nil

C3_Witness ==
    /\ TarClosed /\ Compressed
    /\ StepNames(last.steps) = <<"tar", "gz", "sink">>

\* C4: when TarFile.Close reaches the sink release and the release fails,
\* Close returns that error.
C4_TarCloseReturnsSinkError ==
    TarClosed =>
        \A i \in 1..Len(last.steps) :
            (last.steps[i].step = "sink" /\ last.steps[i].err # Nil)
                => last.ret = last.steps[i].err

\* C5: TarFile.Close stops at the first finalize step that fails and returns
\* exactly that step's error: after a failed TAR finalize the gzip encoder and
\* the sinks are untouched, after a failed gzip finalize the sinks are.
C5_TarCloseStopsAtFirstFailure ==
    [][(impl = "TarFile" /\ ncalls' = ncalls + 1 /\ last'.op = "Close" /\ last'.steps # <<>>) =>
         LET steps == last'.steps
         IN /\ (steps[1].err # Nil) =>
                  /\ Len(steps) = 1
                  /\ last'.ret = steps[1].err
                  /\ GzWriter' = GzWriter
                  /\ released' = released
            /\ (Len(steps) >= 2 /\ steps[2].step = "gz" /\ steps[2].err # Nil) =>
                  /\ Len(steps) = 2
                  /\ last'.ret = steps[2].err
                  /\ released' = released]_vars

C5_Witness ==
    /\ TarClosed /\ Compressed /\ IsCloser(out)
    /\ Len(last.steps) = 2
    /\ last.steps[2] = Step("gz", ErrGzClose)
    /\ last.ret = ErrGzClose
    /\ out \notin released

\* C6: a handle moves only unopened -> open -> closed, and an AddFile or
\* AddDirectory call on a handle that is unopened or closed adds nothing to
\* the archive.
C6_HandleLifecycle ==
    [][/\ phase = "open" => phase' \in {"open", "closed"}
       /\ phase = "closed" => phase' = "closed"
       /\ (phase # "open" /\ ncalls' = ncalls + 1 /\ last'.op \in {"AddFile", "AddDirectory"})
             => Entries' = Entries]_vars

\* The entry a successful add call is to leave: the path as given and the
\* bytes the call copies for a file, the path with one trailing slash and no
\* bytes for a directory.
ExpectedEntry(c) ==
    IF c.op = "AddDirectory"
    THEN [name |-> IF c.path # <<>> /\ c.path[Len(c.path)] = "/" THEN c.path
                   ELSE c.path \o <<"/">>,
          data |-> <<>>]
    ELSE [name |-> c.path,
          data |-> IF impl = "ZipFile"
                   THEN SubSeq(c.src.data, c.src.pos + 1, Len(c.src.data))
                   ELSE c.src.data]

NameAndData(e) == [name |-> e.name, data |-> e.data]

IsPrefix(s, t) == Len(s) <= Len(t) /\ SubSeq(t, 1, Len(s)) = s

\* C7: on an open handle the entries are the successful add calls' (name,
\* content) pairs in call order, and an add call leaves every entry written
\* before it unchanged.
C7_EntriesAppendOnly ==
    /\ []((phase = "open" /\ clean) =>
            /\ Len(Entries) = Len(calls)
            /\ \A i \in 1..Len(calls) : NameAndData(Entries[i]) = ExpectedEntry(calls[i]))
    /\ [][(phase = "open" /\ ncalls' = ncalls + 1 /\ last'.op \in {"AddFile", "AddDirectory"})
             => IsPrefix(Entries, Entries')]_vars

C7_Witness ==
    /\ phase = "open" /\ clean /\ Len(calls) = 2
    /\ calls[1].op = "AddDirectory" /\ calls[1].path = <<"s">>
    /\ calls[2].op = "AddFile" /\ calls[2].path = <<"s", "/", "f">>
    /\ calls[2].src.data # <<>>
    /\ Entries[1].name = <<"s", "/">>
    /\ Entries[2].name = <<"s", "/", "f">>

\* C8: after CreateWriter(name, sink), on either writer, the stored Name is
\* the supplied name unchanged.
C8_CreateWriterKeepsName ==
    last.op = "CreateWriter" => Name = last.arg

\* The policy as a rewrite of the trailing suffix alone.
SuffixRule(f, name) ==
    IF f = "zip"
    THEN IF HasSuffix(name, dotZip) THEN name
         ELSE IF HasSuffix(name, dotTarGz) THEN TrimSuffix(name, dotTarGz) \o dotZip
         ELSE name \o dotZip
    ELSE IF HasSuffix(name, dotTarGz) \/ HasSuffix(name, dotTar) THEN name
         ELSE IF HasSuffix(name, dotZip) THEN TrimSuffix(name, dotZip) \o dotTarGz
         ELSE name \o dotTar

\* C9: normalization changes only the trailing suffix; the part of the name
\* before it is preserved, earlier occurrences of ".tar.gz" or ".zip" included.
C9_OnlyTrailingSuffixChanges ==
    stage # "in" => res.Name = SuffixRule(fmt, arg)

HasFormatSuffix(f, name) ==
    IF f = "zip" THEN HasSuffix(name, dotZip)
    ELSE HasSuffix(name, dotTar) \/ HasSuffix(name, dotTarGz)

\* C10: normalization is idempotent for both formats, a name that already
\* carries a suffix of the format is returned unchanged, and for TAR the flag
\* computed from the normalized name is the flag computed from the name.
C10_NormalizeIdempotent ==
    /\ (stage # "in" /\ HasFormatSuffix(fmt, arg)) => res.Name = arg
    /\ stage = "again" =>
          /\ res2.Name = res.Name
          /\ fmt = "tar" => res2.Compressed = res.Compressed

C10_Witness ==
    /\ stage = "again" /\ fmt = "tar"
    /\ HasSuffix(arg, dotZip) /\ res.Name # arg
    /\ res.Compressed /\ res2 = res

AddedFile == last.op = "AddFile" /\ last.ret = Nil

\* The source as the caller passed it to the last successful add call.
Passed == calls[Len(calls)].src

\* C11: after a successful AddFile, on either writer, the source stands at its
\* end: its read position equals its length, whatever its length and the
\* position it was passed at.
C11_SourceAtEnd ==
    AddedFile => last.src.pos = Len(last.src.data)

C11_Witness ==
    /\ AddedFile /\ calls # <<>>
    /\ Len(Passed.data) > 0 /\ Passed.pos = 0
    /\ last.src.pos = Len(Passed.data)

LastEntry == Entries[Len(Entries)]

EndsInSlash(p) == p # <<>> /\ p[Len(p)] = "/"

AddedDirectory == last.op = "AddDirectory" /\ last.ret = Nil

\* C12: the entry AddDirectory(path) writes, on either writer, is named path
\* when path ends in "/" and path followed by "/" otherwise: the name ends in
\* exactly the slash the path had or the one added, and the rule applied to
\* the name returns the name.
C12_DirectoryNameEndsInSlash ==
    AddedDirectory =>
        /\ EndsInSlash(LastEntry.name)
        /\ LastEntry.name = IF EndsInSlash(last.arg) THEN last.arg ELSE last.arg \o <<"/">>
        /\ DirName(LastEntry.name) = LastEntry.name

C12_Witness ==
    /\ AddedDirectory
    /\ last.arg = <<"s", "/">>
    /\ LastEntry.name = <<"s", "/">>
    /\ LastEntry.kind = "dir"

ZipClosed == impl = "ZipFile" /\ last.op = "Close" /\ last.steps # <<>>

\* C13: ZipFile.Close returns exactly what the ZIP encoder's finalize
\* returned, nil or its error; a sink release, failed or not, is never what
\* it returns.
C13_ZipCloseReturnsFinalizeResult ==
    ZipClosed =>
        /\ last.steps[1].step = "zip"
        /\ last.ret = last.steps[1].err
        /\ \A i \in 2..Len(last.steps) : last.steps[i].step = "sink"

C13_Witness ==
    /\ ZipClosed /\ phase = "closed"
    /\ last.steps[1] = Step("zip", ErrZipClose)
    /\ last.ret = ErrZipClose
    /\ Writer.closed

TarAddedFile == impl = "TarFile" /\ AddedFile

\* C14: the entry TarFile.AddFile writes declares the source's whole length
\* as its size and holds the whole source from its first byte, whatever the
\* position the source was passed at: size, bytes copied and source length
\* are equal.
C14_TarEntryIsWholeSource ==
    TarAddedFile =>
        /\ LastEntry.size = Len(Passed.data)
        /\ Len(LastEntry.data) = LastEntry.size
        /\ LastEntry.data = Passed.data

C14_Witness ==
    /\ TarAddedFile
    /\ Passed.pos > 0
    /\ LastEntry.data = Passed.data
    /\ LastEntry.size = Len(Passed.data)

SeekFailed(steps) == \E i \in 1..Len(steps) : steps[i].step = "seek" /\ steps[i].err # Nil

\* C15: when either seek of TarFile.AddFile fails, the call returns the seek
\* error and writes neither header nor data: the encoders, their entries and
\* the sinks are as before the call.
C15_SeekFailureWritesNothing ==
    [][(impl = "TarFile" /\ ncalls' = ncalls + 1 /\ last'.op = "AddFile" /\ SeekFailed(last'.steps)) =>
          /\ last'.ret = ErrSeek
          /\ Writer' = Writer
          /\ GzWriter' = GzWriter
          /\ released' = released]_vars

C15_Witness ==
    /\ impl = "TarFile" /\ last.op = "AddFile" /\ phase = "open"
    /\ last.steps = <<Step("seek", Nil), Step("seek", ErrSeek)>>
    /\ last.ret = ErrSeek
    /\ Len(Entries) = 1 /\ Len(calls) = 1

\* The TAR encoder writes through the handle's gzip encoder.
ThroughGzip == Writer # NilPtr /\ Writer.dst = ViaGz

\* C16: on a TarFile that has been opened, Compressed holds exactly when Name
\* ends in ".tar.gz" and exactly when the TAR encoder is bound to a gzip
\* encoder over the sink, so a Close that gets past the TAR finalize
\* finalizes a gzip encoder exactly when the TAR encoder writes through one.
C16_CompressedMatchesWiring ==
    (impl = "TarFile" /\ Writer # NilPtr) =>
        /\ Compressed <=> HasSuffix(Name, dotTarGz)
        /\ Compressed <=> ThroughGzip
        /\ (TarClosed /\ last.steps[1].err = Nil /\ last.ret # "panic") =>
              ((\E i \in 1..Len(last.steps) : last.steps[i].step = "gz") <=> ThroughGzip)

====
